---- MODULE Spec2Model ----
(***************************************************************************)
(* The parameter synchronisation protocol of mava/systems/                 *)
(* parameter_client.py: ParameterClient instances (one per executor or     *)
(* trainer process) against one ParameterServer.                           *)
(*                                                                         *)
(* A client call (get_async, set_async, set_and_get_async, add_async) is   *)
(* one atomic action: within a process the calls come from one control     *)
(* loop.  In multi-process mode a request travels to the server as a       *)
(* message of `net`; the server handles the messages one at a time, in any *)
(* order, and handling a message completes the future the client holds     *)
(* for it.  In single-process mode the server call runs inside the client  *)
(* call and the client gets a DoneFuture.                                  *)
(*                                                                         *)
(* A parameter value is a record [kind, v, obj, dev]: the runtime type     *)
(* _copy dispatches on, the contents, the identity of the object the entry *)
(* refers to and where its elements live.  Server value and replica value  *)
(* of a key have the same shape.                                           *)
(*                                                                         *)
(* The executor's observation hooks (mava/systems/idqn/components/         *)
(* executing/observing.py) act on executor.store, forward to the           *)
(* experience sink (the adder) and call the executor's parameter client.   *)
(***************************************************************************)
EXTENDS Integers, Sequences, FiniteSets, TLC

VARIABLES
    store,                 \* ParameterServer: name -> value
    net,                   \* requests sent through server.futures, not yet handled
    parameters,            \* client -> its replica (self._parameters)
    multi_process,         \* client -> self._multi_process
    update_period,         \* client -> self._update_period
    get_keys,              \* client -> self._get_keys
    set_keys,              \* client -> self._set_keys
    devices,               \* client -> self._devices
    get_call_counter,      \* client -> self._get_call_counter
    set_call_counter,      \* client -> self._set_call_counter
    set_get_call_counter,  \* client -> self._set_get_call_counter
    get_future,            \* client -> self._get_future
    set_future,            \* client -> self._set_future
    set_get_future,        \* client -> self._set_get_future
    add_future,            \* client -> self._add_future
    async_add_buffer,      \* client -> self._async_add_buffer
    ncalls,                \* history: client -> operation -> number of calls made
    nreq,                  \* history: client -> operation -> number of calls that issued a request
    issue,                 \* history: client -> operation -> the calls since the last issuing one
    nbusy,                 \* history: client -> add_async calls made while an add of the client was in flight
    added,                 \* history: name -> sum of the deltas passed to add_async
    last,                  \* history: what the client call that led to this state did
    given,                 \* history: the arguments of the recorded set_async calls, in order
    executor,              \* executor.store
    adder_log,             \* the calls the experience sink has accepted, in order
    episode,               \* the position of the executor's run loop
    hooks                  \* history: the hooks invoked and what they did

\* the parameter server, the clients and their history
protocol == <<store, net, parameters, multi_process, update_period, get_keys, set_keys, devices,
              get_call_counter, set_call_counter, set_get_call_counter,
              get_future, set_future, set_get_future, add_future, async_add_buffer,
              ncalls, nreq, issue, nbusy, added, last, given>>

vars == <<protocol, executor, adder_log, episode, hooks>>

\* what the parameter client never touches
pipeline == <<executor, adder_log>>

\* what a client call made outside the hooks leaves alone
loop == <<episode, hooks>>

config == <<multi_process, update_period, get_keys, set_keys, devices>>

(***************************************************************************)
(* Bounds of the model.                                                    *)
(***************************************************************************)
MaxPeriod == 2      \* update_period ranges over 1..MaxPeriod
MaxCalls == 4       \* client calls made in one behaviour, all clients together
MaxVal == 1         \* contents a trainer or an explicit set_async mapping produces
MaxHooks == 4       \* hook invocations made in one behaviour

Clients == {"c1", "c2", "c3"}
Keys == {"k1", "k2"}
KeyOrder == <<"k1", "k2">>
Ops == {"get_async", "set_async", "set_and_get_async", "add_async"}
WaitOps == {"get_and_wait", "get_all_and_wait"}
AllOps == Ops \cup WaitOps

\* The runtime types of a value: a one-level mapping, a mapping of mappings,
\* a numeric array, a sequence of arrays, and a plain scalar.
Kinds == {"dict", "nested", "ndarray", "tuple", "scalar"}

\* isinstance(new_parameters[key], dict) / np.ndarray / tuple
MergeKinds == {"dict", "nested", "ndarray", "tuple"}

\* where a value that was not put on a device lives
Host == "host"

\* jax.device_put returns a new array: an object other than the one given
NewObject(o) == IF o = 1 THEN 2 ELSE 1

NoError == ""

EmptyMap == [k \in {} |-> 0]

Pos(k) == CHOOSE i \in 1..Len(KeyOrder) : KeyOrder[i] = k

Min(S) == CHOOSE x \in S : \A y \in S : x <= y

(***************************************************************************)
(* Futures.  None is the empty slot; a future carries the id of its        *)
(* request, whether it is done, and the result of a get.                   *)
(***************************************************************************)
None == [id |-> 0, done |-> FALSE, res |-> EmptyMap]

NonePair == [id |-> 0, set_done |-> FALSE, get_done |-> FALSE]

DoneFuture(result) == [id |-> 1, done |-> TRUE, res |-> result]

Pending(i) == [id |-> i, done |-> FALSE, res |-> EmptyMap]

PendingPair(i) == [id |-> i, set_done |-> FALSE, get_done |-> FALSE]

\* The request slot a message belongs to.
SlotOf(rk) == IF rk \in {"sg_set", "sg_get"} THEN "set_and_get_async"
              ELSE IF rk = "get" THEN "get_async"
              ELSE IF rk = "set" THEN "set_async"
              ELSE "add_async"

InFlight(c, op) == {r \in net : r.cl = c /\ SlotOf(r.rk) = op}

FreshId(c, op) ==
    LET used == {r.id : r \in InFlight(c, op)}
    IN  Min({i \in 1..(Cardinality(used) + 1) : i \notin used})

Request(c, rk, i, m, ks, ps) ==
    [cl |-> c, rk |-> rk, id |-> i, m |-> m, keys |-> ks, params |-> ps]

Rpc(m, ks, ps) == [m |-> m, keys |-> ks, params |-> ps]

(***************************************************************************)
(* ParameterServer.                                                        *)
(***************************************************************************)
get_parameters(st, names) == [k \in names |-> st[k]]

set_parameters(st, params) ==
    [k \in Keys |-> IF k \in DOMAIN params THEN params[k] ELSE st[k]]

add_to_parameters(st, params) ==
    [k \in Keys |-> IF k \in DOMAIN params
                    THEN [st[k] EXCEPT !.v = @ + params[k]]
                    ELSE st[k]]

(***************************************************************************)
(* ParameterClient._copy: the response is merged key by key, dispatching   *)
(* on the type of the new value.  The first key whose merge raises ends    *)
(* the merge and leaves the keys after it unmerged.                        *)
(***************************************************************************)
\* self._parameters[key] = jax.device_put(new_parameters[key], self._devices[key])
PutOnDevice(old, new, devs, k) ==
    [old EXCEPT !.v = new.v, !.obj = NewObject(@), !.dev = devs[k]]

\* the entry is rebound to a new array
Rebound(old, new) == [old EXCEPT !.v = new.v, !.obj = NewObject(@)]

\* self._parameters[key] *= 0; self._parameters[key] += new_parameters[key]
InPlace(old, new) == [old EXCEPT !.v = new.v]

\* self._parameters[key][type1_key] = new_parameters[key][type1_key], and the
\* same one level down and by index: the entry now refers to the element of
\* the response
Assigned(old, new) == [old EXCEPT !.v = new.v, !.dev = new.dev]

\* self._parameters[key][i] = jax.device_put(new_parameters[key][i], self._devices[key][i])
ElementsOnDevice(old, new, devs, k) == [old EXCEPT !.v = new.v, !.dev = devs[k]]

\* the error the merge of one key raises, NoError if none
merge_error(new, devs, k) ==
    IF new.kind = "dict" THEN NoError
    ELSE IF new.kind = "nested"
         THEN (IF devs # EmptyMap THEN "NotImplementedError" ELSE NoError)
    ELSE IF new.kind \in {"ndarray", "tuple"}
         THEN (IF devs # EmptyMap /\ k \notin DOMAIN devs THEN "KeyError" ELSE NoError)
    ELSE "NotImplementedError"

merge_value(old, new, devs, k) ==
    IF new.kind \in {"dict", "nested"} THEN Assigned(old, new)
    ELSE IF new.kind = "ndarray"
         THEN (IF devs # EmptyMap THEN PutOnDevice(old, new, devs, k) ELSE InPlace(old, new))
    ELSE IF devs # EmptyMap THEN ElementsOnDevice(old, new, devs, k)
    ELSE Assigned(old, new)

\* the position in the response of the first key whose merge raises
StopsAt(new, devs) ==
    LET bad == {k \in DOMAIN new : merge_error(new[k], devs, k) # NoError}
    IN  IF bad = {} THEN Len(KeyOrder) + 1 ELSE Min({Pos(k) : k \in bad})

copy_error(new, devs) ==
    LET stop == StopsAt(new, devs)
    IN  IF stop > Len(KeyOrder) THEN NoError
        ELSE merge_error(new[KeyOrder[stop]], devs, KeyOrder[stop])

copy_raises(new, devs) == copy_error(new, devs) # NoError

copy(p, new, devs) ==
    [k \in Keys |-> IF k \in DOMAIN new /\ Pos(k) < StopsAt(new, devs)
                    THEN merge_value(p[k], new[k], devs, k)
                    ELSE p[k]]

(***************************************************************************)
(* The periodic gate shared by get_async, set_async and set_and_get_async. *)
(***************************************************************************)
\* the counter is never advanced
TickStuck(counter, period) == counter

\* if self._<kind>_call_counter < self._update_period: self._<kind>_call_counter += 1
Tick(counter, period) == IF counter < period THEN counter + 1 ELSE counter

\* the gate opens one call early
PeriodReachedEarly(counter, period) == counter + 1 >= period

\* period_reached: bool = self._<kind>_call_counter >= self._update_period
PeriodReached(counter, period) == counter >= period

SlotFree(f) == f.id = 0

\* the request goes out whether or not the slot is free
MayIssueIgnoringSlot(reached, f) == reached

\* if period_reached and self._<kind>_future is None:
MayIssue(reached, f) == reached /\ SlotFree(f)

\* if self._<kind>_future is not None and self._<kind>_future.done():
Polled(f) == ~SlotFree(f) /\ f.done

\* get_async falls through from issuing the request to polling the future;
\* set_async and set_and_get_async return right after issuing.
\* the merged future is left in the slot
KeptAfterMerge(fut, raised) == fut

\* the slot is cleared whether or not the merge raised
ClearedAfterMerge(fut, raised) == None

\* self._copy(self._get_future.result()); self._get_future = None
\* (a _copy that raises leaves the future in the slot)
AfterMerge(fut, raised) == IF raised THEN fut ELSE None

\* get_async returns right after issuing, as set_async does
ReturnsAfterIssue == TRUE

GetReturnsAfterIssue == FALSE

SetReturnsAfterIssue == TRUE

SetKeysSubset(c) == [k \in set_keys[c] |-> parameters[c][k]]

(***************************************************************************)
(* History bookkeeping.                                                    *)
(***************************************************************************)
RECURSIVE SumOver(_, _)
SumOver(f, S) == IF S = {} THEN 0
                 ELSE LET x == CHOOSE y \in S : TRUE
                      IN  f[x] + SumOver(f, S \ {x})

CallsOf(c) == SumOver(ncalls[c], AllOps)

TotalCalls == SumOver([c \in Clients |-> CallsOf(c)], Clients)

NoCall == [cl |-> "", op |-> "", trig |-> FALSE, raised |-> FALSE, err |-> NoError,
           rpcs |-> <<>>]

\* What a client call did: whether it issued a request (trig), the error it
\* raised and the server calls it made, in order.
Called(c, op, trig, err, rpcs) ==
    last' = [cl |-> c, op |-> op, trig |-> trig, raised |-> err # NoError, err |-> err,
             rpcs |-> rpcs]

\* The call is counted; a behaviour holds at most MaxCalls counted calls.
\* no call of the operation has issued a request yet
NoIssue == [since |-> 0, raised |-> FALSE]

\* the calls made after the last issuing call (MaxPeriod stands for more),
\* and whether that issuing call raised
Issued(was, trig, raised) ==
    IF trig THEN [since |-> 0, raised |-> raised]
    ELSE [was EXCEPT !.since = IF @ < MaxPeriod THEN @ + 1 ELSE @]

Count(c, op) ==
    /\ TotalCalls < MaxCalls
    /\ ncalls' = [ncalls EXCEPT ![c][op] = @ + 1]
    /\ nreq' = [nreq EXCEPT ![c][op] = @ + (IF last'.trig THEN 1 ELSE 0)]
    /\ issue' = [issue EXCEPT ![c][op] = Issued(@, last'.trig, last'.raised)]

\* a counted call made by the process's control loop itself
Counted(c, op) == Count(c, op) /\ UNCHANGED <<loop, given>>

Uncounted == UNCHANGED <<ncalls, nreq, issue, loop, given>>

(***************************************************************************)
(* executor.store, as the observation hooks see it.                        *)
(***************************************************************************)
Agents == {"agent_0", "agent_1"}

Networks == {"network_0", "network_1"}

net_keys_to_ids == [n \in Networks |-> IF n = "network_0" THEN 0 ELSE 1]

\* executor.store.adder is None, a sink, or a sink whose calls may raise
NoAdder == "none"

Sink == "sink"

FaultySink == "faulty_sink"

\* executor.store.executor_parameter_client is None
NoClient == "none"

\* sample_new_agent_keys: the assignments it may return for the agents, and
\* the integer network identifiers it returns with an assignment
Samples(agents) == [agents -> Networks]

network_int_keys(assignment) ==
    [a \in DOMAIN assignment |-> net_keys_to_ids[assignment[a]]]

InitAssignment == [a \in Agents |-> "network_0"]

\* executor.store.actions_info, set by the executor before on_execution_observe
ActionInfos == {[a \in Agents |-> 0], [a \in {"agent_0"} |-> 1]}

ExecutorStore(adder, client) ==
    [adder |-> adder,
     executor_parameter_client |-> client,
     agent_net_keys |-> InitAssignment,
     network_int_keys_extras |-> network_int_keys(InitAssignment),
     extras |-> EmptyMap,
     next_extras |-> EmptyMap]

NoHooks == [observed |-> <<>>, updates |-> 0, forced |-> 0, sampled |-> 0,
            sink_calls |-> 0, sink_failed |-> FALSE, raised |-> FALSE]

\* the run loop has not started
Idle == adder_log = <<>> /\ episode = "idle" /\ hooks = NoHooks

\* clients used on their own, outside an executor
Standalone == Idle /\ executor = ExecutorStore(NoAdder, NoClient)

(***************************************************************************)
(* Initial states: freshly constructed clients around a server whose store *)
(* holds every key.                                                        *)
(***************************************************************************)
KeyConfigs == { <<{"k1", "k2"}, {"k1"}>>, <<{"k2"}, {"k1"}>> }

InitValue == [kind |-> "ndarray", v |-> 0, obj |-> 0, dev |-> Host]

\* the state __init__ leaves, whatever the parameters given
Constructed ==
    /\ net = {}
    /\ get_call_counter = [c \in Clients |-> 0]
    /\ set_call_counter = [c \in Clients |-> 0]
    /\ set_get_call_counter = [c \in Clients |-> 0]
    /\ get_future = [c \in Clients |-> None]
    /\ set_future = [c \in Clients |-> None]
    /\ set_get_future = [c \in Clients |-> NonePair]
    /\ add_future = [c \in Clients |-> None]
    /\ async_add_buffer = [c \in Clients |-> EmptyMap]
    /\ ncalls = [c \in Clients |-> [o \in AllOps |-> 0]]
    /\ nreq = [c \in Clients |-> [o \in AllOps |-> 0]]
    /\ issue = [c \in Clients |-> [o \in AllOps |-> NoIssue]]
    /\ nbusy = [c \in Clients |-> 0]
    /\ added = [k \in Keys |-> 0]
    /\ last = NoCall
    /\ given = <<>>

Fresh ==
    /\ store = [k \in Keys |-> InitValue]
    /\ parameters = [c \in Clients |-> [k \in Keys |-> InitValue]]
    /\ Constructed

Deployment == \E mp \in BOOLEAN : multi_process = [c \in Clients |-> mp]

\* devices: Dict[...] = {}
NoDevices == devices = [c \in Clients |-> EmptyMap]

Init ==
    /\ Fresh
    /\ Deployment
    /\ NoDevices
    /\ Standalone
    /\ \E p \in 1..MaxPeriod : update_period = [c \in Clients |-> p]
    /\ \E kc \in KeyConfigs :
          /\ get_keys = [c \in Clients |-> kc[1]]
          /\ set_keys = [c \in Clients |-> kc[2]]

(***************************************************************************)
(* ParameterClient.get_async                                               *)
(***************************************************************************)
get_async(c) ==
    LET cnt   == Tick(get_call_counter[c], update_period[c])
        trig  == MayIssue(PeriodReached(cnt, update_period[c]), get_future[c])
        i     == FreshId(c, "get_async")
        fut   == IF ~trig THEN get_future[c]
                 ELSE IF multi_process[c] THEN Pending(i)
                 ELSE DoneFuture(get_parameters(store, get_keys[c]))
        merge == ~(trig /\ GetReturnsAfterIssue) /\ Polled(fut)
        err   == IF merge THEN copy_error(fut.res, devices[c]) ELSE NoError
    IN  /\ get_call_counter' = [get_call_counter EXCEPT ![c] = IF trig THEN 0 ELSE cnt]
        /\ net' = IF trig /\ multi_process[c]
                  THEN net \cup {Request(c, "get", i, "get", get_keys[c], EmptyMap)}
                  ELSE net
        /\ parameters' = IF merge
                         THEN [parameters EXCEPT ![c] = copy(@, fut.res, devices[c])]
                         ELSE parameters
        /\ get_future' = [get_future EXCEPT ![c] =
                                  IF merge THEN AfterMerge(fut, err # NoError) ELSE fut]
        /\ Called(c, "get_async", trig, err,
                  IF trig THEN <<Rpc("get", get_keys[c], EmptyMap)>> ELSE <<>>)
        /\ UNCHANGED <<store, config, pipeline, set_call_counter, set_get_call_counter,
                       set_future, set_get_future, add_future, async_add_buffer,
                       nbusy, added>>

GetAsync(c) == get_async(c) /\ Counted(c, "get_async")

(***************************************************************************)
(* ParameterClient.get_and_wait and get_all_and_wait: the call to the      *)
(* server blocks the client until the server has answered; the response is *)
(* merged before the call returns.                                         *)
(***************************************************************************)
\* self._request = lambda: server.get_parameters(self._get_keys)
RequestKeys(c) == get_keys[c]

\* self._request_all = lambda: server.get_parameters(self._all_keys)
RequestAllKeys(c) == Keys

\* the response is dropped
Dropped(p, new, devs) == p

\* self._copy(self._request())
MergeOnReturn(p, new, devs) == copy(p, new, devs)

wait_for(c, op, names) ==
    LET result == get_parameters(store, names)
    IN  /\ parameters' = [parameters EXCEPT ![c] = MergeOnReturn(@, result, devices[c])]
        /\ Called(c, op, TRUE, copy_error(result, devices[c]),
                  <<Rpc("get", names, EmptyMap)>>)
        /\ UNCHANGED <<store, net, config, pipeline, get_call_counter, set_call_counter,
                       set_get_call_counter, get_future, set_future, set_get_future,
                       add_future, async_add_buffer, nbusy, added>>

get_and_wait(c) == wait_for(c, "get_and_wait", RequestKeys(c))

get_all_and_wait(c) == wait_for(c, "get_all_and_wait", RequestAllKeys(c))

GetAndWait(c) == get_and_wait(c) /\ Counted(c, "get_and_wait")

GetAllAndWait(c) == get_all_and_wait(c) /\ Counted(c, "get_all_and_wait")

(***************************************************************************)
(* ParameterClient.set_async.  The argument is absent (params=None: the    *)
(* set_keys subset of the replica is pushed) or an explicit mapping.       *)
(***************************************************************************)
NoParams == [given |-> FALSE, map |-> EmptyMap]

SetInputs ==
    {NoParams} \cup
    {[given |-> TRUE, map |-> [k \in {key} |-> [InitValue EXCEPT !.v = val]]] :
        key \in Keys, val \in {MaxVal}}

\* the explicit mapping is ignored
SetKeysPayload(c, p) == SetKeysSubset(c)

\* if params is None: self._async_adjust() else: self._async_adjust_param(params)
SetPayload(c, p) == IF p.given THEN p.map ELSE SetKeysSubset(c)

set_async(c, p) ==
    LET cnt     == Tick(set_call_counter[c], update_period[c])
        trig    == MayIssue(PeriodReached(cnt, update_period[c]), set_future[c])
        i       == FreshId(c, "set_async")
        fut     == IF ~trig THEN set_future[c]
                   ELSE IF multi_process[c] THEN Pending(i)
                   ELSE DoneFuture(EmptyMap)
        poll    == ~(trig /\ SetReturnsAfterIssue) /\ Polled(fut)
        payload == SetPayload(c, p)
    IN  /\ set_call_counter' = [set_call_counter EXCEPT ![c] = IF trig THEN 0 ELSE cnt]
        /\ net' = IF trig /\ multi_process[c]
                  THEN net \cup {Request(c, "set", i, "set", {}, payload)}
                  ELSE net
        /\ store' = IF trig /\ ~multi_process[c]
                    THEN set_parameters(store, payload)
                    ELSE store
        /\ set_future' = [set_future EXCEPT ![c] = IF poll THEN None ELSE fut]
        /\ Called(c, "set_async", trig, NoError,
                  IF trig THEN <<Rpc("set", {}, payload)>> ELSE <<>>)
        /\ UNCHANGED <<parameters, config, pipeline, get_call_counter, set_get_call_counter,
                       get_future, set_get_future, add_future, async_add_buffer,
                       nbusy, added>>

SetAsync(c, p) == set_async(c, p) /\ Counted(c, "set_async")

\* the same call, with its argument and whether it issued a request recorded
SetAsyncGiven(c, p) ==
    /\ set_async(c, p)
    /\ Count(c, "set_async")
    /\ given' = Append(given, [arg |-> p, trig |-> last'.trig])
    /\ UNCHANGED loop

(***************************************************************************)
(* ParameterClient.set_and_get_async with _async_adjust_and_request and    *)
(* _adjust_and_request.                                                    *)
(***************************************************************************)
\* _adjust_and_request: the names the single-process path asks the server for
SyncRequestKeys(c) == get_keys[c]

\* _async_adjust_and_request: the names the multi-process path asks the server for
AsyncRequestKeys(c) == get_keys[c] \ set_keys[c]

set_and_get_async(c) ==
    LET cnt     == Tick(set_get_call_counter[c], update_period[c])
        trig    == MayIssue(PeriodReached(cnt, update_period[c]), set_get_future[c])
        i       == FreshId(c, "set_and_get_async")
        payload == SetKeysSubset(c)
        st1     == set_parameters(store, payload)
        result  == get_parameters(st1, SyncRequestKeys(c))
        sync    == trig /\ ~multi_process[c]
        err     == IF sync THEN copy_error(result, devices[c]) ELSE NoError
        rais    == err # NoError
        alldone == set_get_future[c].set_done /\ set_get_future[c].get_done
    IN  /\ set_get_call_counter' = [set_get_call_counter EXCEPT ![c] =
              IF trig /\ ~rais THEN 0 ELSE cnt]
        /\ net' = IF trig /\ multi_process[c]
                  THEN net \cup {Request(c, "sg_set", i, "set", {}, payload),
                                 Request(c, "sg_get", i, "get", AsyncRequestKeys(c), EmptyMap)}
                  ELSE net
        /\ store' = IF sync THEN st1 ELSE store
        /\ parameters' = IF sync
                         THEN [parameters EXCEPT ![c] = copy(@, result, devices[c])]
                         ELSE parameters
        /\ set_get_future' = [set_get_future EXCEPT ![c] =
              IF trig THEN (IF multi_process[c] THEN PendingPair(i) ELSE NonePair)
              ELSE IF @.id # 0 /\ alldone THEN NonePair
              ELSE @]
        /\ Called(c, "set_and_get_async", trig, err,
                  IF ~trig THEN <<>>
                  ELSE <<Rpc("set", {}, payload),
                         Rpc("get", IF multi_process[c] THEN AsyncRequestKeys(c)
                                    ELSE SyncRequestKeys(c), EmptyMap)>>)
        /\ UNCHANGED <<config, pipeline, get_call_counter, set_call_counter,
                       get_future, set_future, add_future, async_add_buffer,
                       nbusy, added>>

SetAndGetAsync(c) == set_and_get_async(c) /\ Counted(c, "set_and_get_async")

(***************************************************************************)
(* ParameterClient.add_async.  params is a dict: a sequence of             *)
(* [name, delta] with distinct names, in the dict's order.                 *)
(***************************************************************************)
Item(n, d) == [name |-> n, delta |-> d]

AddInputs == { <<Item("k1", 1)>>, <<Item("k2", 1)>>,
               <<Item("k1", 1), Item("k2", 1)>>, <<Item("k2", 1), Item("k1", 1)>> }

SingleNameInputs == { <<Item("k1", 1)>>, <<Item("k2", 1)>> }

Names(params) == {params[j].name : j \in 1..Len(params)}

AsMap(params) ==
    [k \in Names(params) |-> LET j == CHOOSE j \in 1..Len(params) : params[j].name = k
                             IN  params[j].delta]

\* for name in names: buffer[name] += params[name], which raises KeyError at
\* the first name the buffer does not hold: the index of that name, or
\* Len(params) + 1 when the loop completes.
FirstMissing(buf, params) ==
    LET miss == {j \in 1..Len(params) : params[j].name \notin DOMAIN buf}
    IN  IF miss = {} THEN Len(params) + 1 ELSE Min(miss)

Accumulate(buf, params) ==
    LET stop == FirstMissing(buf, params)
    IN  [k \in DOMAIN buf |->
            IF \E j \in 1..(stop - 1) : params[j].name = k
            THEN buf[k] + AsMap(params)[k]
            ELSE buf[k]]

\* the emptiness test inverted
SendsDirectInverted(buf) == buf # EmptyMap

\* if not self._async_add_buffer: the delta goes out on its own
SendsDirect(buf) == buf = EmptyMap

add_async(c, params) ==
    LET f0      == IF Polled(add_future[c]) THEN None ELSE add_future[c]
        free    == SlotFree(f0)
        buf     == async_add_buffer[c]
        direct  == free /\ SendsDirect(buf)
        summed  == ~direct /\ (free \/ buf # EmptyMap)
        rais    == summed /\ FirstMissing(buf, params) <= Len(params)
        trig    == free /\ ~rais
        payload == IF direct THEN AsMap(params) ELSE Accumulate(buf, params)
        i       == FreshId(c, "add_async")
    IN  /\ async_add_buffer' = [async_add_buffer EXCEPT ![c] =
              IF trig THEN (IF direct THEN buf ELSE EmptyMap)
              ELSE IF summed THEN Accumulate(buf, params)
              ELSE AsMap(params)]
        /\ net' = IF trig /\ multi_process[c]
                  THEN net \cup {Request(c, "add", i, "add", {}, payload)}
                  ELSE net
        /\ store' = IF trig /\ ~multi_process[c]
                    THEN add_to_parameters(store, payload)
                    ELSE store
        /\ add_future' = [add_future EXCEPT ![c] =
              IF trig THEN (IF multi_process[c] THEN Pending(i) ELSE DoneFuture(EmptyMap))
              ELSE f0]
        /\ nbusy' = [nbusy EXCEPT ![c] = @ + (IF InFlight(c, "add_async") # {} THEN 1 ELSE 0)]
        /\ added' = [k \in Keys |-> added[k] + (IF k \in Names(params) THEN AsMap(params)[k] ELSE 0)]
        /\ Called(c, "add_async", trig, IF rais THEN "KeyError" ELSE NoError,
                  IF trig THEN <<Rpc("add", {}, payload)>> ELSE <<>>)
        /\ UNCHANGED <<parameters, config, pipeline, get_call_counter, set_call_counter,
                       set_get_call_counter, get_future, set_future, set_get_future>>

AddAsync(c, params) == add_async(c, params) /\ Counted(c, "add_async")

(***************************************************************************)
(* The trainer computes new values for the parameters it owns (the         *)
(* set_keys of its client), outside the client.                            *)
(***************************************************************************)
LocalUpdate(c) ==
    \E k \in set_keys[c] :
        /\ parameters[c][k].v < MaxVal
        /\ parameters' = [parameters EXCEPT ![c][k].v = @ + 1]
        /\ last' = NoCall
        /\ UNCHANGED <<store, net, config, pipeline, get_call_counter, set_call_counter,
                       set_get_call_counter, get_future, set_future, set_get_future,
                       add_future, async_add_buffer, ncalls, nreq, issue, nbusy, added, given, loop>>

(***************************************************************************)
(* The server handles one request and completes its future.                *)
(***************************************************************************)
Complete(f, r, result) ==
    IF f.id = r.id /\ ~SlotFree(f) THEN [f EXCEPT !.done = TRUE, !.res = result] ELSE f

ServerProcess(r) ==
    LET c      == r.cl
        result == IF r.m = "get" THEN get_parameters(store, r.keys) ELSE EmptyMap
    IN  /\ r \in net
        /\ net' = net \ {r}
        /\ store' = IF r.m = "set" THEN set_parameters(store, r.params)
                    ELSE IF r.m = "add" THEN add_to_parameters(store, r.params)
                    ELSE store
        /\ get_future' = IF r.rk = "get"
                         THEN [get_future EXCEPT ![c] = Complete(@, r, result)]
                         ELSE get_future
        /\ set_future' = IF r.rk = "set"
                         THEN [set_future EXCEPT ![c] = Complete(@, r, EmptyMap)]
                         ELSE set_future
        /\ add_future' = IF r.rk = "add"
                         THEN [add_future EXCEPT ![c] = Complete(@, r, EmptyMap)]
                         ELSE add_future
        /\ set_get_future' =
              IF r.rk = "sg_set" /\ set_get_future[c].id = r.id
              THEN [set_get_future EXCEPT ![c].set_done = TRUE]
              ELSE IF r.rk = "sg_get" /\ set_get_future[c].id = r.id
              THEN [set_get_future EXCEPT ![c].get_done = TRUE]
              ELSE set_get_future
        \* get_future.add_done_callback(lambda ctx: self._copy(ctx.result()))
        /\ parameters' = IF r.rk = "sg_get"
                         THEN [parameters EXCEPT ![c] = copy(@, result, devices[c])]
                         ELSE parameters
        \* an error of _copy is raised inside the callback, where no caller of the
        \* client receives it
        /\ IF r.rk = "sg_get"
           THEN Called(c, "done_callback", FALSE, copy_error(result, devices[c]), <<>>)
           ELSE last' = NoCall
        /\ UNCHANGED <<config, pipeline, get_call_counter, set_call_counter, set_get_call_counter,
                       async_add_buffer, ncalls, nreq, issue, nbusy, added, given, loop>>

Server == \E r \in net : ServerProcess(r)

RequestsOf(c) == {r \in net : r.cl = c}

(***************************************************************************)
(* FeedforwardExecutorObserve: the four hooks.  A hook takes what the      *)
(* executor and the external collaborators supply: the sampled assignment, *)
(* the actions_info, whether the sink's call raises.                       *)
(***************************************************************************)
\* the sink is taken as attached whatever the store holds
AlwaysAdder(st) == TRUE

\* the sink is taken as absent whatever the store holds
NeverAdder(st) == FALSE

\* if not executor.store.adder: return
HasAdder(st) == st.adder # NoAdder

\* the client is taken as absent whatever the store holds
NeverClient(st) == FALSE

\* if executor.store.executor_parameter_client:
HasClient(st) == st.executor_parameter_client # NoClient

\* the identifiers of the assignment the executor was built with
BuiltKeys(st) == network_int_keys(InitAssignment)

\* executor.store.next_extras["network_int_keys"] = executor.store.network_int_keys_extras
ReportedKeys(st) == st.network_int_keys_extras

\* the hook catches what the sink raises
Swallowed(fails) == FALSE

\* the hooks have no try/except: what the sink raises leaves the hook
Propagates(fails) == fails

SinkRaises == IF executor.adder = FaultySink THEN BOOLEAN ELSE {FALSE}

SinkCall(call, actions, extras) == [call |-> call, actions |-> actions, extras |-> extras]

on_execution_observe_first(sample, fails) ==
    LET attached == HasAdder(executor)
        ids      == network_int_keys(sample)
        st       == [executor EXCEPT !.network_int_keys_extras = ids,
                                     !.agent_net_keys = sample,
                                     !.extras = ("network_int_keys" :> ids) @@ @]
    IN  /\ executor' = IF attached THEN st ELSE executor
        /\ adder_log' = IF attached /\ ~fails
                        THEN Append(adder_log, SinkCall("add_first", EmptyMap, st.extras))
                        ELSE adder_log
        /\ hooks' = [hooks EXCEPT !.observed = Append(@, "on_execution_observe_first"),
                                  !.sampled = @ + (IF attached THEN 1 ELSE 0),
                                  !.sink_calls = @ + (IF attached THEN 1 ELSE 0),
                                  !.sink_failed = attached /\ fails,
                                  !.raised = attached /\ Propagates(fails)]
        /\ UNCHANGED protocol

on_execution_observe(actions_info, fails) ==
    LET attached      == HasAdder(executor)
        adder_actions == [agent \in DOMAIN actions_info |->
                             [actions_info |-> actions_info[agent]]]
        st            == [executor EXCEPT
                             !.next_extras = ("network_int_keys" :> ReportedKeys(executor)) @@ @]
    IN  /\ executor' = IF attached THEN st ELSE executor
        /\ adder_log' = IF attached /\ ~fails
                        THEN Append(adder_log, SinkCall("add", adder_actions, st.next_extras))
                        ELSE adder_log
        /\ hooks' = [hooks EXCEPT !.observed = Append(@, "on_execution_observe"),
                                  !.sink_calls = @ + (IF attached THEN 1 ELSE 0),
                                  !.sink_failed = attached /\ fails,
                                  !.raised = attached /\ Propagates(fails)]
        /\ UNCHANGED protocol

on_execution_update ==
    LET c == executor.executor_parameter_client
    IN  /\ IF HasClient(executor)
           THEN get_async(c) /\ Count(c, "get_async") /\ UNCHANGED given
           ELSE UNCHANGED <<protocol, pipeline>>
        /\ hooks' = [hooks EXCEPT !.updates = @ + 1,
                                  !.sink_failed = FALSE,
                                  !.raised = HasClient(executor) /\ last'.raised]

on_execution_force_update ==
    LET c == executor.executor_parameter_client
    IN  /\ IF HasClient(executor)
           THEN get_and_wait(c) /\ Count(c, "get_and_wait") /\ UNCHANGED given
           ELSE UNCHANGED <<protocol, pipeline>>
        /\ hooks' = [hooks EXCEPT !.forced = @ + 1,
                                  !.sink_failed = FALSE,
                                  !.raised = HasClient(executor) /\ last'.raised]

(***************************************************************************)
(* The executor's run loop: per episode one on_execution_observe_first,    *)
(* then on_execution_observe after each environment step, with the update  *)
(* hooks in between; a hook that raises ends the loop.                     *)
(***************************************************************************)
HooksInvoked == Len(hooks.observed) + hooks.updates + hooks.forced

Continues(then) == episode' = IF hooks'.raised THEN "stopped" ELSE then

RunObserveFirst ==
    /\ episode = "idle" /\ HooksInvoked < MaxHooks
    /\ \E sample \in Samples(DOMAIN executor.agent_net_keys) : \E fails \in SinkRaises :
          on_execution_observe_first(sample, fails)
    /\ Continues("observing")

RunObserve ==
    /\ episode = "observing" /\ HooksInvoked < MaxHooks
    /\ \E info \in ActionInfos : \E fails \in SinkRaises :
          on_execution_observe(info, fails)
    /\ Continues("observing")

RunUpdate ==
    /\ episode # "stopped" /\ HooksInvoked < MaxHooks
    /\ on_execution_update
    /\ Continues(episode)

RunForceUpdate ==
    /\ episode # "stopped" /\ HooksInvoked < MaxHooks
    /\ on_execution_force_update
    /\ Continues(episode)

\* the environment reports the last step of the episode
RunEndEpisode ==
    /\ episode = "observing"
    /\ episode' = "idle"
    /\ UNCHANGED <<protocol, pipeline, hooks>>

(***************************************************************************)
(* One client, every operation.                                            *)
(***************************************************************************)
Next ==
    \/ GetAsync("c1")
    \/ \E p \in SetInputs : SetAsync("c1", p)
    \/ SetAndGetAsync("c1")
    \/ \E params \in SingleNameInputs : AddAsync("c1", params)
    \/ LocalUpdate("c1")
    \/ Server

Spec == Init /\ [][Next]_vars

(***************************************************************************)
(* Several clients adding to the server's counters.                        *)
(***************************************************************************)
NextAdd ==
    \/ \E c \in Clients : \E params \in AddInputs : AddAsync(c, params)
    \/ Server

\* clients constructed with the default update_period, get_keys and set_keys
InitAdd ==
    /\ Fresh
    /\ Deployment
    /\ NoDevices
    /\ Standalone
    /\ update_period = [c \in Clients |-> 1]
    /\ get_keys = [c \in Clients |-> {}]
    /\ set_keys = [c \in Clients |-> {}]

SpecAdd == InitAdd /\ [][NextAdd]_vars

(***************************************************************************)
(* A trainer pushing k1 (its set_keys) and an executor pulling k1 (its     *)
(* get_keys).  The executor's control loop calls get_async on every step   *)
(* and the server answers every request, hence the fairness conditions;    *)
(* the calls are not counted, the loop never ends.                         *)
(***************************************************************************)
Writer == "c1"

Reader == "c2"

InitLive ==
    /\ Fresh
    /\ Deployment
    /\ NoDevices
    /\ Standalone
    /\ \E p \in 1..MaxPeriod : update_period = [c \in Clients |-> p]
    /\ get_keys = [c \in Clients |-> IF c = Writer THEN {} ELSE {"k1"}]
    /\ set_keys = [c \in Clients |-> IF c = Writer THEN {"k1"} ELSE {}]

WriterPushes == set_async(Writer, NoParams) /\ Uncounted

ReaderPulls == get_async(Reader) /\ Uncounted

ServerAnswers(c) == \E r \in RequestsOf(c) : ServerProcess(r)

NextLive ==
    \/ LocalUpdate(Writer)
    \/ WriterPushes
    \/ ReaderPulls
    \/ \E c \in {Writer, Reader} : ServerAnswers(c)

SpecLive ==
    /\ InitLive
    /\ [][NextLive]_vars
    /\ WF_vars(ReaderPulls)
    /\ \A c \in {Writer, Reader} : WF_vars(ServerAnswers(c))

(***************************************************************************)
(* An executor's client pulling parameters of every runtime type, with and *)
(* without a device-placement map, from a server that is ahead of the      *)
(* replica.                                                                *)
(***************************************************************************)
Executor == "c1"

Device == "device"

\* the types of k1 and k2
KindConfigs == {<<kd, "ndarray">> : kd \in Kinds} \cup {<<"ndarray", "scalar">>}

\* no map, a map with a device for every parameter, a map without k2
DeviceConfigs == {EmptyMap, [k \in Keys |-> Device], [k \in {"k1"} |-> Device]}

MergeKeyConfigs == { <<{"k1", "k2"}, {}>>, <<{"k1", "k2"}, {"k1"}>> }

InitMerge ==
    /\ Constructed
    /\ Deployment
    /\ Idle
    /\ executor = ExecutorStore(NoAdder, Executor)
    /\ update_period = [c \in Clients |-> 1]
    /\ \E kd \in KindConfigs :
          /\ store = [k \in Keys |-> [InitValue EXCEPT !.kind = kd[Pos(k)], !.v = MaxVal]]
          /\ parameters = [c \in Clients |-> [k \in Keys |-> [InitValue EXCEPT !.kind = kd[Pos(k)]]]]
    /\ \E d \in DeviceConfigs : devices = [c \in Clients |-> d]
    /\ \E kc \in MergeKeyConfigs :
          /\ get_keys = [c \in Clients |-> kc[1]]
          /\ set_keys = [c \in Clients |-> kc[2]]

NextMerge ==
    \/ GetAsync(Executor)
    \/ GetAndWait(Executor)
    \/ GetAllAndWait(Executor)
    \/ SetAndGetAsync(Executor)
    \/ RunForceUpdate
    \/ Server

SpecMerge == InitMerge /\ [][NextMerge]_vars

(***************************************************************************)
(* One client making the three periodic calls, for every update_period,    *)
(* with a parameter whose merge may raise.                                 *)
(***************************************************************************)
PeriodicOps == {"get_async", "set_async", "set_and_get_async"}

GateKindConfigs == { <<"ndarray", "ndarray">>, <<"ndarray", "scalar">> }

InitGate ==
    /\ Constructed
    /\ Deployment
    /\ NoDevices
    /\ Standalone
    /\ \E p \in 1..MaxPeriod : update_period = [c \in Clients |-> p]
    /\ \E kd \in GateKindConfigs :
          /\ store = [k \in Keys |-> [InitValue EXCEPT !.kind = kd[Pos(k)], !.v = MaxVal]]
          /\ parameters = [c \in Clients |-> [k \in Keys |-> [InitValue EXCEPT !.kind = kd[Pos(k)]]]]
    /\ \E kc \in KeyConfigs :
          /\ get_keys = [c \in Clients |-> kc[1]]
          /\ set_keys = [c \in Clients |-> kc[2]]

NextGate ==
    \/ GetAsync("c1")
    \/ SetAsync("c1", NoParams)
    \/ SetAndGetAsync("c1")
    \/ Server

SpecGate == InitGate /\ [][NextGate]_vars

(***************************************************************************)
(* An executor running episodes: with and without a sink, with and without *)
(* a parameter client.                                                     *)
(***************************************************************************)
InitObserve ==
    /\ Constructed
    /\ Deployment
    /\ NoDevices
    /\ Idle
    /\ store = [k \in Keys |-> [InitValue EXCEPT !.v = MaxVal]]
    /\ parameters = [c \in Clients |-> [k \in Keys |-> InitValue]]
    /\ \E p \in 1..MaxPeriod : update_period = [c \in Clients |-> p]
    /\ get_keys = [c \in Clients |-> Keys]
    /\ set_keys = [c \in Clients |-> {}]
    /\ \E adder \in {NoAdder, Sink, FaultySink} : \E client \in {NoClient, Executor} :
          executor = ExecutorStore(adder, client)

NextObserve ==
    \/ RunObserveFirst
    \/ RunObserve
    \/ RunUpdate
    \/ RunForceUpdate
    \/ RunEndEpisode
    \/ Server

SpecObserve == InitObserve /\ [][NextObserve]_vars

(***************************************************************************)
(* A trainer's client calling set_async with and without an explicit       *)
(* mapping, for every update_period, while the trainer updates its         *)
(* parameters.                                                             *)
(***************************************************************************)
Trainer == "c1"

InitSet ==
    /\ Fresh
    /\ Deployment
    /\ NoDevices
    /\ Standalone
    /\ \E p \in 1..MaxPeriod : update_period = [c \in Clients |-> p]
    /\ \E kc \in KeyConfigs :
          /\ get_keys = [c \in Clients |-> kc[1]]
          /\ set_keys = [c \in Clients |-> kc[2]]

NextSet ==
    \/ \E p \in SetInputs : SetAsyncGiven(Trainer, p)
    \/ LocalUpdate(Trainer)
    \/ Server

SpecSet == InitSet /\ [][NextSet]_vars

(***************************************************************************)
(* Properties.                                                             *)
(***************************************************************************)
RECURSIVE SumParams(_, _)
SumParams(S, k) ==
    IF S = {} THEN 0
    ELSE LET r == CHOOSE x \in S : TRUE
         IN  (IF k \in DOMAIN r.params THEN r.params[k] ELSE 0) + SumParams(S \ {r}, k)

Buffered(c, k) == IF k \in DOMAIN async_add_buffer[c] THEN async_add_buffer[c][k] ELSE 0

\* C1: a fresh client's first update_period - 1 calls of get_async issue no
\* get request, and the call number update_period has issued exactly one.
C1_Periodicity ==
    \A c \in Clients :
        /\ ncalls[c]["get_async"] < update_period[c] => nreq[c]["get_async"] = 0
        /\ ncalls[c]["get_async"] = update_period[c] => nreq[c]["get_async"] = 1

C1_Witness ==
    \E c \in Clients :
        /\ update_period[c] >= 2
        /\ ncalls[c]["get_async"] = update_period[c]
        /\ nreq[c]["get_async"] = 1
        /\ last.op = "get_async" /\ last.trig

\* C2: of each kind (get, set, combined set-then-get, add) a client has at
\* most one request unresolved at any time: no request is issued while the
\* previous one of its kind is unresolved.
C2_OneOutstandingPerKind ==
    \A c \in Clients : \A op \in Ops :
        Cardinality({r.id : r \in InFlight(c, op)}) <= 1

\* get_async is called, with the period reached, while a get is unresolved
C2_Witness ==
    \E c \in Clients :
        /\ InFlight(c, "get_async") # {}
        /\ get_call_counter[c] = update_period[c]
        /\ last = [cl |-> c, op |-> "get_async", trig |-> FALSE, raised |-> FALSE,
                   err |-> NoError, rpcs |-> <<>>]

\* C3 as stated: a client never has more than 4 unresolved future handles.
C3_AtMostFourHandles == \A c \in Clients : Cardinality(RequestsOf(c)) <= 4

\* C3 amended: a client never has more than 5 unresolved future handles (one
\* get, one set, one add, and the two handles of one combined set-then-get).
C3_AtMostFiveHandles == \A c \in Clients : Cardinality(RequestsOf(c)) <= 5

C3_Witness ==
    \E c \in Clients :
        /\ Cardinality(RequestsOf(c)) = 5
        /\ \A op \in Ops : InFlight(c, op) # {}

\* C4: three add_async calls of one client, each adding 1 to k1, the second
\* and the third made while the first is in flight and none after them: once
\* the server has handled every request it received, k1 has grown by 3.
C4_ThreeAddsArrive ==
    \A c \in Clients :
        ( /\ TotalCalls = 3
          /\ ncalls[c]["add_async"] = 3
          /\ nbusy[c] = 2
          /\ added["k1"] = 3 /\ added["k2"] = 0
          /\ net = {} )
        => store["k1"].v = InitValue.v + 3

\* C5: for every name, what the server has applied, what unresolved add
\* requests carry and what the add buffers hold sum to the deltas passed to
\* add_async.
C5_DeltasConserved ==
    \A k \in Keys :
        (store[k].v - InitValue.v)
          + SumParams({r \in net : r.m = "add"}, k)
          + SumOver([c \in Clients |-> Buffered(c, k)], Clients)
        = added[k]

\* C6: three clients each call add_async once, adding 1 to k1; when the
\* server has handled the requests, k1 has grown by 3.
C6_ThreeClientsOnce ==
    ( /\ \A c \in Clients : ncalls[c]["add_async"] = 1
      /\ added["k1"] = 3 /\ added["k2"] = 0
      /\ net = {} )
    => store["k1"].v = InitValue.v + 3

C6_Witness ==
    /\ \A c \in Clients : ncalls[c]["add_async"] = 1 /\ multi_process[c]
    /\ added["k1"] = 3 /\ added["k2"] = 0
    /\ net = {}
    /\ store["k1"].v = InitValue.v + 3

\* C7: once the server holds, for the reader's get key k1, a value the writer
\* pushed (the writer's values only grow, so: a value of at least n), the
\* reader's replica eventually holds that value or a later one.
C7_EventuallyVisible ==
    \A n \in 1..MaxVal :
        (store["k1"].v >= n) ~> (parameters[Reader]["k1"].v >= n)

C7_Witness ==
    /\ multi_process[Reader]
    /\ update_period[Reader] >= 2
    /\ store["k1"].v >= 1
    /\ parameters[Reader]["k1"].v = store["k1"].v
    /\ last.op = "get_async" /\ last.cl = Reader

\* C8: in single-process mode a get_async call that issues a request leaves
\* the get slot empty and the replica's get_keys equal to the server's values.
C8_SingleProcessGetMerges ==
    (last.op = "get_async" /\ last.trig /\ ~multi_process[last.cl])
    => /\ get_future[last.cl] = None
       /\ \A k \in get_keys[last.cl] : parameters[last.cl][k] = store[k]

\* such a call brought in a value the replica did not hold
C8_Witness ==
    /\ last.op = "get_async" /\ last.trig /\ ~multi_process[last.cl]
    /\ \E k \in get_keys[last.cl] \ set_keys[last.cl] :
          store[k].v > InitValue.v /\ parameters[last.cl][k] = store[k]

\* C9: in single-process mode n calls of set_async issue n \div update_period
\* set requests.
C9_SetEveryPeriod ==
    \A c \in Clients :
        ~multi_process[c] =>
            nreq[c]["set_async"] = ncalls[c]["set_async"] \div update_period[c]

\* C10: a set_and_get_async call that triggers first pushes the set_keys
\* subset of the replica and then asks the server for get_keys minus
\* set_keys, in both modes.
C10_PushThenRequestDifference ==
    (last.op = "set_and_get_async" /\ last.trig)
    => last.rpcs = << Rpc("set", {}, SetKeysSubset(last.cl)),
                      Rpc("get", get_keys[last.cl] \ set_keys[last.cl], EmptyMap) >>

\* C11: when get_and_wait returns, the replica holds for every key of get_keys
\* the contents the server holds, and when get_all_and_wait returns, for every
\* tracked key: the round trip and the merge are part of the call.
C11_WaitMergesBeforeReturn ==
    /\ (last.op = "get_and_wait" /\ ~last.raised)
          => \A k \in get_keys[last.cl] : parameters[last.cl][k].v = store[k].v
    /\ (last.op = "get_all_and_wait" /\ ~last.raised)
          => \A k \in Keys : parameters[last.cl][k].v = store[k].v

\* get_and_wait brought in new contents while a get_async request of the
\* client was still unresolved
C11_Witness ==
    /\ last.op = "get_and_wait" /\ ~last.raised
    /\ multi_process[last.cl]
    /\ InFlight(last.cl, "get_async") # {}
    /\ \A k \in get_keys[last.cl] :
          parameters[last.cl][k].v = store[k].v /\ store[k].v # InitValue.v

\* C12 as stated: after any merge a numeric-array entry of the replica refers
\* to the object it referred to at construction.
C12_SameBufferAlways ==
    \A c \in Clients : \A k \in Keys :
        parameters[c][k].kind = "ndarray" => parameters[c][k].obj = InitValue.obj

\* C12 amended: without a device-placement map, after any merge a
\* numeric-array entry of the replica refers to the object it referred to at
\* construction; only its contents change.
C12_SameBufferWithoutDevices ==
    \A c \in Clients : \A k \in Keys :
        (devices[c] = EmptyMap /\ parameters[c][k].kind = "ndarray")
            => parameters[c][k].obj = InitValue.obj

\* a numeric array was merged in place, through the done callback of a
\* combined set-then-get
C12_Witness ==
    /\ last.op = "done_callback" /\ ~last.raised
    /\ devices[last.cl] = EmptyMap
    /\ \E k \in Keys :
          /\ parameters[last.cl][k].kind = "ndarray"
          /\ parameters[last.cl][k].v # InitValue.v
          /\ parameters[last.cl][k].obj = InitValue.obj

\* C13: a merge that meets a value of an unsupported type raises
\* NotImplementedError out of a call of the client, and the value is not
\* stored.
C13_UnsupportedRaisesToCaller ==
    /\ (last.err = "NotImplementedError" /\ devices[last.cl] = EmptyMap)
          => last.op \in {"get_async", "get_and_wait", "get_all_and_wait",
                          "set_and_get_async"}
    /\ \A c \in Clients : \A k \in Keys :
          parameters[c][k].kind \notin MergeKinds => parameters[c][k].v = InitValue.v

\* C14: with a device-placement map, whatever a merge has stored in the
\* replica was put on a device.
C14_MergedElementsPlaced ==
    \A c \in Clients : \A k \in Keys :
        (devices[c] # EmptyMap /\ parameters[c][k].v # InitValue.v)
            => parameters[c][k].dev # Host

\* the sink call an observation hook makes
SinkCallOf(hook) == IF hook = "on_execution_observe_first" THEN "add_first" ELSE "add"

ObserveFirstStep == hooks'.observed = Append(hooks.observed, "on_execution_observe_first")

UpdateStep == hooks'.updates = hooks.updates + 1 \/ hooks'.forced = hooks.forced + 1

\* C15: with no sink attached the observation hooks change nothing of
\* executor.store (agent_net_keys, network_int_keys_extras, extras and
\* next_extras are as built), never invoke the sampling policy and make no
\* sink call.
C15_NoSinkNoEffect ==
    executor.adder = NoAdder =>
        /\ executor = ExecutorStore(NoAdder, executor.executor_parameter_client)
        /\ adder_log = <<>>
        /\ hooks.sampled = 0
        /\ hooks.sink_calls = 0

\* both hooks have run without a sink
C15_Witness ==
    /\ executor.adder = NoAdder
    /\ Len(hooks.observed) >= 2
    /\ hooks.observed[1] = "on_execution_observe_first"
    /\ hooks.observed[2] = "on_execution_observe"

\* C16: every add the sink accepted carries the network_int_keys of the
\* add_first that opened its episode, and agent_net_keys and
\* network_int_keys_extras change in on_execution_observe_first steps only.
C16_NetworkStability ==
    /\ [](\A i \in 1..Len(adder_log) :
            adder_log[i].call = "add" =>
                \E j \in 1..(i - 1) :
                    /\ adder_log[j].call = "add_first"
                    /\ \A m \in (j + 1)..(i - 1) : adder_log[m].call = "add"
                    /\ adder_log[i].extras["network_int_keys"]
                          = adder_log[j].extras["network_int_keys"])
    /\ [][(\/ executor'.agent_net_keys # executor.agent_net_keys
           \/ executor'.network_int_keys_extras # executor.network_int_keys_extras)
          => ObserveFirstStep]_vars

\* an episode with a newly sampled assignment: add_first, add, an update
\* hook, add
C16_Witness ==
    /\ Len(adder_log) = 3
    /\ adder_log[1].extras["network_int_keys"] # network_int_keys(InitAssignment)
    /\ adder_log[3].call = "add"
    /\ hooks.updates + hooks.forced >= 1

\* C17: with a sink attached every observation hook makes exactly one sink
\* call, add_first for on_execution_observe_first and add for
\* on_execution_observe; the sink holds the calls in the order of the hooks,
\* and its history starts with an add_first.
C17_OneSinkCallPerHook ==
    executor.adder # NoAdder =>
        /\ hooks.sink_calls = Len(hooks.observed)
        /\ Len(adder_log) = Len(hooks.observed) - (IF hooks.sink_failed THEN 1 ELSE 0)
        /\ \A i \in 1..Len(adder_log) : adder_log[i].call = SinkCallOf(hooks.observed[i])
        /\ Len(adder_log) > 0 => adder_log[1].call = "add_first"

\* two episodes recorded
C17_Witness ==
    /\ executor.adder = Sink
    /\ hooks.observed = <<"on_execution_observe_first", "on_execution_observe",
                          "on_execution_observe_first", "on_execution_observe">>
    /\ Len(adder_log) = 4

\* C18: when a sink call raises, the hook raises, the sink was called once by
\* that hook and the run loop has stopped; a stopped loop invokes no hook.
C18_SinkFailureStopsLoop ==
    /\ [](hooks.sink_failed =>
            /\ hooks.raised
            /\ episode = "stopped"
            /\ hooks.sink_calls = Len(hooks.observed))
    /\ [][episode = "stopped" => UNCHANGED <<executor, adder_log, episode, hooks>>]_vars

\* the add of a running episode raised
C18_Witness ==
    /\ hooks.sink_failed
    /\ episode = "stopped"
    /\ Len(adder_log) >= 1
    /\ hooks.observed[Len(hooks.observed)] = "on_execution_observe"

\* C19: with a client attached the number of get_async calls is the number
\* of on_execution_update invocations and the number of get_and_wait calls
\* the number of on_execution_force_update invocations; with none attached
\* the two hooks change nothing; neither hook touches the sink or
\* executor.store.
C19_UpdateHooksCallClient ==
    /\ [](\A c \in Clients :
            /\ ncalls[c]["get_async"]
                  = (IF executor.executor_parameter_client = c THEN hooks.updates ELSE 0)
            /\ ncalls[c]["get_and_wait"]
                  = (IF executor.executor_parameter_client = c THEN hooks.forced ELSE 0))
    /\ [][UpdateStep =>
            /\ UNCHANGED pipeline
            /\ executor.executor_parameter_client = NoClient => UNCHANGED protocol]_vars

\* both hooks have called the client of an executor without a sink
C19_Witness ==
    /\ executor.adder = NoAdder
    /\ executor.executor_parameter_client = Executor
    /\ hooks.updates >= 1 /\ hooks.forced >= 1
    /\ ncalls[Executor]["get_async"] = hooks.updates
    /\ ncalls[Executor]["get_and_wait"] = hooks.forced
    /\ parameters[Executor]["k1"].v = store["k1"].v

CallCounter(c, op) ==
    IF op = "get_async" THEN get_call_counter[c]
    ELSE IF op = "set_async" THEN set_call_counter[c]
    ELSE set_get_call_counter[c]

\* a call of op by c that issues a request, not the first to do so
IssuesAgain(c, op) == nreq'[c][op] = nreq[c][op] + 1 /\ nreq[c][op] >= 1

ClientCallStep == \E c \in Clients : \E op \in AllOps : ncalls'[c][op] = ncalls[c][op] + 1

\* C21: in multi-process mode the replica changes only in a step that is a
\* call of the client made by the control loop, never in the step in which a
\* response arrives.
C21_ReplicaChangesInCallsOnly ==
    [][\A c \in Clients :
          (multi_process[c] /\ parameters'[c] # parameters[c]) => ClientCallStep]_vars

\* C22: a client whose add buffer is not empty has an add request the server
\* has not handled yet.
C22_BufferOnlyWhileInFlight ==
    \A c \in Clients :
        async_add_buffer[c] # EmptyMap => InFlight(c, "add_async") # {}

\* the names and deltas of the add_async call made in the step
DeltaOfStep == [k \in {n \in Keys : added'[n] # added[n]} |-> added'[k] - added[k]]

\* the key-wise sum of a buffer and a delta: a key the buffer does not hold
\* starts at its delta
KeywiseSum(buf, delta) ==
    [k \in DOMAIN buf \cup DOMAIN delta |->
        (IF k \in DOMAIN buf THEN buf[k] ELSE 0) + (IF k \in DOMAIN delta THEN delta[k] ELSE 0)]

\* C23: no add_async call fails; a call made while an add is in flight leaves
\* the buffer at the key-wise sum of the buffer and its delta, and a call that
\* flushes the buffer sends the key-wise sum of the buffer and its delta.
C23_KeywiseAccumulation ==
    [][\A c \in Clients :
          ncalls'[c]["add_async"] = ncalls[c]["add_async"] + 1 =>
              /\ ~last'.raised
              /\ ~last'.trig =>
                    async_add_buffer'[c] = KeywiseSum(async_add_buffer[c], DeltaOfStep)
              /\ (last'.trig /\ async_add_buffer[c] # EmptyMap) =>
                    last'.rpcs[1].params = KeywiseSum(async_add_buffer[c], DeltaOfStep)]_vars

(***************************************************************************)
(* A trainer pushing k1 and an executor pulling it with get_async,         *)
(* get_and_wait and get_all_and_wait, in any interleaving.  The trainer's  *)
(* values only grow, so the server's contents tell the age of a snapshot.  *)
(***************************************************************************)
InitFresh ==
    /\ Fresh
    /\ Deployment
    /\ NoDevices
    /\ Standalone
    /\ \E p \in 1..MaxPeriod : update_period = [c \in Clients |-> p]
    /\ get_keys = [c \in Clients |-> IF c = Writer THEN {} ELSE {"k1"}]
    /\ set_keys = [c \in Clients |-> IF c = Writer THEN {"k1"} ELSE {}]

NextFresh ==
    \/ LocalUpdate(Writer)
    \/ SetAsync(Writer, NoParams)
    \/ GetAsync(Reader)
    \/ GetAndWait(Reader)
    \/ GetAllAndWait(Reader)
    \/ Server

SpecFresh == InitFresh /\ [][NextFresh]_vars

\* C24: the replica's get_keys never go back to contents older than those
\* already merged: with a server whose contents only grow, no step lowers
\* them.
C24_FreshnessMonotone ==
    [][\A k \in get_keys[Reader] :
          parameters'[Reader][k].v >= parameters[Reader][k].v]_vars

\* a completed get whose merge raises occupies the get slot of the client
GetSlotStuck(c) ==
    /\ Polled(get_future[c])
    /\ copy_raises(get_future[c].res, devices[c])

\* C25: a get_async call whose merge raised leaves the completed get in the
\* slot; while it is there it stays there, every get_async call raises the
\* same error again and issues no request.
C25_RaisingMergeKeepsSlot ==
    /\ [](\A c \in Clients :
            (last.cl = c /\ last.op = "get_async" /\ last.raised) => GetSlotStuck(c))
    /\ [][\A c \in Clients :
            GetSlotStuck(c) =>
                /\ GetSlotStuck(c)'
                /\ get_future'[c] = get_future[c]
                /\ nreq'[c]["get_async"] = nreq[c]["get_async"]
                /\ InFlight(c, "get_async")' = {}
                /\ ncalls'[c]["get_async"] = ncalls[c]["get_async"] + 1 =>
                      /\ last'.raised /\ ~last'.trig
                      /\ last'.err = copy_error(get_future[c].res, devices[c])]_vars

\* in multi-process mode the third get_async call after the one that issued
\* the request raised, an unsupported type, with the period reached each time
C25_Witness ==
    \E c \in Clients :
        /\ multi_process[c]
        /\ last.cl = c /\ last.op = "get_async" /\ last.err = "NotImplementedError"
        /\ devices[c] = EmptyMap
        /\ issue[c]["get_async"].since >= 2
        /\ ncalls[c]["get_async"] = 3 /\ nreq[c]["get_async"] = 1
        /\ GetSlotStuck(c)

\* the set_async call recorded in the step
SetCallStep == Len(given') = Len(given) + 1

\* what the server is to receive from a set_async call given arg: the
\* explicit mapping, or the set_keys subset of the replica
Intended(c, arg) ==
    IF arg.given THEN arg.map ELSE [k \in set_keys[c] |-> parameters[c][k]]

\* the requests of client c that take part in a set_async round trip
SetRequests(c) == {r \in net : r.cl = c /\ r.rk = "set"}

\* C26: a set_async call made before the period is reached, or while a set
\* occupies the slot, sends nothing; a call that triggers sends its own
\* argument (the explicit mapping, or the set_keys subset) and nothing else;
\* no set_async call changes the replica.
C26_DroppedMappingNeverSent ==
    [][\A c \in Clients : (SetCallStep /\ last'.cl = c) =>
          LET arg     == given'[Len(given')].arg
              counter == IF set_call_counter[c] < update_period[c]
                         THEN set_call_counter[c] + 1 ELSE set_call_counter[c]
              trigger == counter >= update_period[c] /\ set_future[c] = None
              sent    == {r.params : r \in SetRequests(c)' \ SetRequests(c)}
          IN  /\ parameters' = parameters
              /\ \A r \in net' \ net : r \in SetRequests(c)'
              /\ ~trigger =>
                    /\ net' = net /\ store' = store
                    /\ last'.rpcs = <<>>
              /\ trigger =>
                    /\ last'.rpcs = <<Rpc("set", {}, Intended(c, arg))>>
                    /\ multi_process[c] => sent = {Intended(c, arg)} /\ store' = store
                    /\ ~multi_process[c] =>
                          /\ net' = net
                          /\ store' = [k \in Keys |->
                                IF k \in DOMAIN Intended(c, arg)
                                THEN Intended(c, arg)[k] ELSE store[k]]]_vars

\* an explicit mapping for k2 was passed to a call that issued nothing, a
\* later call with an explicit mapping issued a request, and the server has
\* handled every request: it holds what the later call passed for its key
\* and never received k2
C26_Witness ==
    \E i \in 1..Len(given) : \E j \in (i + 1)..Len(given) :
        /\ given[i].arg.given /\ ~given[i].trig
        /\ DOMAIN given[i].arg.map = {"k2"}
        /\ given[j].arg.given /\ given[j].trig
        /\ DOMAIN given[j].arg.map = {"k1"}
        /\ \A m \in 1..Len(given) : DOMAIN given[m].arg.map # {"k2"} \/ ~given[m].trig
        /\ net = {}
        /\ store["k2"] = InitValue
        /\ store["k1"].v = MaxVal

====
